---- MODULE Spec2Model ----
(***************************************************************************)
(* Model of mpags-cipher (src/src/mpags-cipher.cpp): main() builds a       *)
(* cipher, cuts the sanitized input text into j = 4 chunks, applies the    *)
(* cipher to each chunk on its own std::async thread, polls the futures,   *)
(* concatenates the results and writes them to a file or to std::cout.     *)
(*                                                                         *)
(* Characters are numbers: the letters A..Z are 0..25 and the digits       *)
(* '0'..'9' are 26..35.  A string is a sequence of characters.             *)
(* The cipher classes, cipherFactory and transformChar are not part of     *)
(* src/; they are modelled from the design document (spec.md 4.1 - 4.3).   *)
(***************************************************************************)
EXTENDS Integers, Sequences, FiniteSets, TLC

VARIABLES pc, settings, inputText, cipher, substrLen, iThr, futures, wait,
          fIdx, outputText, cout, cerr, outputStream, exitStatus, run,
          firstText, coutWriters

vars == <<pc, settings, inputText, cipher, substrLen, iThr, futures, wait,
          fIdx, outputText, cout, cerr, outputStream, exitStatus, run,
          firstText, coutWriters>>

(***************************************************************************)
(* Bounds of the model.                                                    *)
(***************************************************************************)
\* longest sanitized input text
MaxLen == 5

\* the input texts are made of the letters A and B, or of A and the digit '1'
TextAlphabets == {{0, 1}, {0, 27}}

\* the keys given with -k: none, "3", "25" and "BC"
Keys == {<<>>, <<29>>, <<28, 31>>, <<1, 2>>}

RECURSIVE SeqsUpTo(_, _)
SeqsUpTo(S, n) ==
    IF n = 0 THEN {<<>>}
    ELSE LET shorter == SeqsUpTo(S, n - 1)
         IN  shorter \cup {Append(s, c) : s \in {t \in shorter : Len(t) = n - 1}, c \in S}

Texts == UNION {SeqsUpTo(S, MaxLen) : S \in TextAlphabets}

\* the input texts of the runs in which applyCipher may throw
ThrowTexts == SeqsUpTo({0}, MaxLen)

(***************************************************************************)
(* Characters.                                                             *)
(***************************************************************************)
AlphabetSize == 26

IsAlpha(c) == c \in 0 .. (AlphabetSize - 1)

IsDigit(c) == c \in AlphabetSize .. (AlphabetSize + 9)

DigitValue(c) == c - AlphabetSize

\* number of alphabetic characters of text before index k (1-based)
AlphaBefore(text, k) == Cardinality({m \in 1 .. (k - 1) : IsAlpha(text[m])})

(***************************************************************************)
(* CaesarCipher (spec.md 4.2, 4.3).                                        *)
(***************************************************************************)
RECURSIVE DecimalValue(_)
DecimalValue(key) ==
    IF key = <<>> THEN 0
    ELSE 10 * DecimalValue(SubSeq(key, 1, Len(key) - 1)) + DigitValue(key[Len(key)])

CaesarKeyValid(key) == \A k \in 1 .. Len(key) : IsDigit(key[k])

CaesarShift(key) == DecimalValue(key) % AlphabetSize

CaesarApply(shift, text, mode) ==
    [k \in 1 .. Len(text) |->
        IF IsAlpha(text[k])
        THEN IF mode = "Encrypt"
             THEN (text[k] + shift) % AlphabetSize
             ELSE (text[k] + AlphabetSize - shift) % AlphabetSize
        ELSE text[k]]

(***************************************************************************)
(* VigenereCipher (spec.md 4.2, 4.3): the letter at alphabetic position p  *)
(* of the text it is given is shifted by keyword letter p mod keyLength;   *)
(* digits pass through and do not advance the keyword.                     *)
(***************************************************************************)
KeywordValid(key) == key # <<>> /\ \A k \in 1 .. Len(key) : IsAlpha(key[k])

VigenereApply(key, text, mode) ==
    [k \in 1 .. Len(text) |->
        IF IsAlpha(text[k])
        THEN LET shift == key[(AlphaBefore(text, k) % Len(key)) + 1]
             IN  IF mode = "Encrypt"
                 THEN (text[k] + shift) % AlphabetSize
                 ELSE (text[k] + AlphabetSize - shift) % AlphabetSize
        ELSE text[k]]

(***************************************************************************)
(* PlayfairCipher (spec.md 4.2, 4.3).  The key square holds the keyword's  *)
(* letters (J folded into I, duplicates dropped) and then the remaining    *)
(* letters of the alphabet, 25 in all, row by row.                         *)
(***************************************************************************)
GridSize == 5

LetterI == 8

LetterJ == 9

LetterQ == 16

LetterX == 23

FoldJ(c) == IF c = LetterJ THEN LetterI ELSE c

RECURSIVE Dedup(_, _)
Dedup(s, seen) ==
    IF s = <<>> THEN <<>>
    ELSE IF Head(s) \in seen THEN Dedup(Tail(s), seen)
    ELSE <<Head(s)>> \o Dedup(Tail(s), seen \cup {Head(s)})

KeySquare(key) ==
    LET folded == [k \in 1 .. Len(key) |-> FoldJ(key[k])]
        rest   == [k \in 1 .. (AlphabetSize - 1) |-> IF k - 1 < LetterJ THEN k - 1 ELSE k]
    IN  Dedup(folded \o rest, {})

\* the padding letter that completes a digraph whose first letter is c
PadLetter(c) == IF c = LetterX THEN LetterQ ELSE LetterX

\* Pairing and padding of text from index k on; half is the first letter of
\* the digraph that is open, or -1 when none is open. Digits stay in place.
RECURSIVE PadFrom(_, _, _)
PadFrom(text, k, half) ==
    IF k > Len(text)
    THEN IF half = -1 THEN <<>> ELSE <<PadLetter(half)>>
    ELSE IF ~IsAlpha(text[k]) THEN <<text[k]>> \o PadFrom(text, k + 1, half)
    ELSE LET c == FoldJ(text[k])
         IN  IF half = -1 THEN <<c>> \o PadFrom(text, k + 1, c)
             ELSE IF c = half THEN <<PadLetter(half)>> \o PadFrom(text, k, -1)
             ELSE <<c>> \o PadFrom(text, k + 1, -1)

PlayfairPad(text) == PadFrom(text, 1, -1)

\* index 0..24 of letter c in the key square
SquareIndex(square, c) == (CHOOSE k \in 1 .. Len(square) : square[k] = c) - 1

\* the substitute of the letter a whose digraph partner is b
SubstituteLetter(square, a, b, mode) ==
    LET ia   == SquareIndex(square, a)
        ib   == SquareIndex(square, b)
        ra   == ia \div GridSize
        ca   == ia % GridSize
        rb   == ib \div GridSize
        cb   == ib % GridSize
        step == IF mode = "Encrypt" THEN 1 ELSE GridSize - 1
    IN  IF ra = rb THEN square[ra * GridSize + ((ca + step) % GridSize) + 1]
        ELSE IF ca = cb THEN square[((ra + step) % GridSize) * GridSize + ca + 1]
        ELSE square[ra * GridSize + cb + 1]

\* substitution of a padded text: its letters, digits aside, pair up in order
PlayfairSubstitute(square, padded, mode) ==
    LET letters == SelectSeq(padded, IsAlpha)
    IN  [k \in 1 .. Len(padded) |->
            IF IsAlpha(padded[k])
            THEN LET p == AlphaBefore(padded, k)
                     q == IF p % 2 = 0 THEN p + 1 ELSE p - 1
                 IN  SubstituteLetter(square, padded[k], letters[q + 1], mode)
            ELSE padded[k]]

PlayfairApply(key, text, mode) ==
    PlayfairSubstitute(KeySquare(key), PlayfairPad(text), mode)

(***************************************************************************)
(* cipherFactory (spec.md 4.2) and Cipher::applyCipher (spec.md 4.3).      *)
(***************************************************************************)
NoCipher == [type |-> "none", key |-> <<>>]

cipherFactory(type, key) ==
    CASE type = "Caesar"   -> IF CaesarKeyValid(key)
                              THEN [type |-> "Caesar", key |-> key] ELSE NoCipher
      [] type = "Vigenere" -> IF KeywordValid(key)
                              THEN [type |-> "Vigenere", key |-> key] ELSE NoCipher
      [] type = "Playfair" -> IF KeywordValid(key)
                              THEN [type |-> "Playfair", key |-> key] ELSE NoCipher

applyCipher(c, text, mode) ==
    CASE c.type = "Caesar"   -> CaesarApply(CaesarShift(c.key), text, mode)
      [] c.type = "Vigenere" -> VigenereApply(c.key, text, mode)
      [] c.type = "Playfair" -> PlayfairApply(c.key, text, mode)

\* the line terminator written by std::endl, neither a letter nor a digit
EndLine == AlphabetSize + 10

\* transformChar (spec.md 4.1) on upper-case letters, digits and EndLine
transformChar(c) == IF IsAlpha(c) \/ IsDigit(c) THEN <<c>> ELSE <<>>

(***************************************************************************)
(* main(): the chunks (lines 106 - 119).                                   *)
(***************************************************************************)
\* number of chunks and of threads
j == 4

\* substr with an end that is one character too far
substrInclusiveEnd(s, pos, len) ==
    SubSeq(s, pos + 1, IF pos + len + 1 < Len(s) THEN pos + len + 1 ELSE Len(s))

\* std::string::substr(pos, len): the characters [pos, min(pos + len, size))
substr(s, pos, len) ==
    SubSeq(s, pos + 1, IF pos + len < Len(s) THEN pos + len ELSE Len(s))

\* substr throws std::out_of_range when pos is beyond the end of the string
substrThrows(s, pos) == pos > Len(s)

\* every chunk of the same length, the remainder forgotten
chunkLenNoRemainder(text, i) == Len(text) \div j

\* length of chunk i (0-based) as main() asks for it
chunkLen(text, i) ==
    IF i # j - 1 THEN Len(text) \div j
    ELSE (Len(text) \div j) + (Len(text) % j)

\* the offset taken as a multiple of the chunk's own length
chunkPosFromLen(text, i) == i * chunkLen(text, i)

\* first offset of chunk i (0-based)
chunkPos(text, i) == i * (Len(text) \div j)

inTextChunk(text, i) == substr(text, chunkPos(text, i), chunkLen(text, i))

(***************************************************************************)
(* What is written to the streams.                                         *)
(***************************************************************************)
ThreadWaitMsg == [tag |-> "[thread] Wait for it...", text |-> <<>>]

ThreadDoneMsg == [tag |-> "[thread] Done!", text |-> <<>>]

\* a text followed by std::endl
TextLine(text) == [tag |-> "text", text |-> text]

CipherErrorMsg == [tag |-> "[error] problem constructing requested cipher", text |-> <<>>]

OstreamErrorMsg == [tag |-> "[error] failed to create ostream on file", text |-> <<>>]

(***************************************************************************)
(* The state after the command line and the input text have been read      *)
(* (lines 15 - 92).                                                        *)
(***************************************************************************)
CipherTypes == {"Caesar", "Playfair", "Vigenere"}

CipherModes == {"Encrypt", "Decrypt"}

OutputFiles == {"", "out.txt"}

Init ==
    /\ settings \in [cipherType : CipherTypes, cipherMode : CipherModes,
                     cipherKey : Keys, outputFile : OutputFiles]
    /\ inputText \in Texts
    /\ firstText = inputText
    /\ run = 1
    /\ pc = "cipherFactory"
    /\ cipher = NoCipher
    /\ substrLen = 0
    /\ iThr = 0
    /\ futures = <<>>
    /\ wait = TRUE
    /\ fIdx = 1
    /\ outputText = <<>>
    /\ cout = <<>>
    /\ cerr = <<>>
    /\ outputStream = <<>>
    /\ exitStatus = "running"
    /\ coutWriters = {}

(***************************************************************************)
(* main(), lines 94 - 102: construction of the cipher.                     *)
(***************************************************************************)
\* construction without the check of line 98
ConstructCipherUnchecked ==
    /\ pc = "cipherFactory"
    /\ cipher' = cipherFactory(settings.cipherType, settings.cipherKey)
    /\ substrLen' = Len(inputText) \div j
    /\ pc' = "dispatch"
    /\ UNCHANGED <<settings, inputText, iThr, futures, wait, fIdx, outputText,
                   cout, cerr, outputStream, exitStatus, run, firstText,
                   coutWriters>>

ConstructCipher ==
    /\ pc = "cipherFactory"
    /\ cipher' = cipherFactory(settings.cipherType, settings.cipherKey)
    /\ IF cipher' = NoCipher
       THEN /\ cerr' = Append(cerr, CipherErrorMsg)
            /\ exitStatus' = "return 1"
            /\ pc' = "done"
            /\ UNCHANGED substrLen
       ELSE /\ substrLen' = Len(inputText) \div j
            /\ pc' = "dispatch"
            /\ UNCHANGED <<cerr, exitStatus>>
    /\ UNCHANGED <<settings, inputText, iThr, futures, wait, fIdx, outputText,
                   cout, outputStream, run, firstText, coutWriters>>

(***************************************************************************)
(* main(), lines 113 - 130: one turn of the loop that cuts chunk iThr and  *)
(* starts its thread with std::async(std::launch::async, ...).             *)
(***************************************************************************)
\* gets counts the calls of get() on the future
NewFuture(chunk) ==
    [state |-> "started", chunk |-> chunk, value |-> <<>>, exception |-> FALSE,
     gets |-> 0]

Dispatch ==
    /\ pc = "dispatch"
    /\ IF substrThrows(inputText, chunkPos(inputText, iThr))
       THEN /\ exitStatus' = "terminate"
            /\ pc' = "done"
            /\ UNCHANGED <<futures, iThr, wait>>
       ELSE /\ futures' = Append(futures, NewFuture(inTextChunk(inputText, iThr)))
            /\ iThr' = iThr + 1
            /\ IF iThr' < j
               THEN UNCHANGED <<pc, wait>>
               ELSE pc' = "while" /\ wait' = TRUE
            /\ UNCHANGED exitStatus
    /\ UNCHANGED <<settings, inputText, cipher, substrLen, fIdx, outputText,
                   cout, cerr, outputStream, run, firstText, coutWriters>>

(***************************************************************************)
(* The lambda applyCiphOnThr, lines 122 - 127, run by thread i.            *)
(***************************************************************************)
Running == exitStatus = "running"

\* lines 123 - 126: "Wait for it..." is printed, the cipher is applied to the
\* thread's copy of its chunk, "Done!" is printed and the returned text makes
\* the future ready
ThreadApply(i) ==
    /\ Running
    /\ i \in 1 .. Len(futures)
    /\ futures[i].state = "started"
    /\ cout' = cout \o <<ThreadWaitMsg, ThreadDoneMsg>>
    /\ coutWriters' = coutWriters \cup {i}
    /\ futures' = [futures EXCEPT
                     ![i].state = "ready",
                     ![i].value = applyCipher(cipher, futures[i].chunk, settings.cipherMode)]
    /\ UNCHANGED <<pc, settings, inputText, cipher, substrLen, iThr, wait, fIdx,
                   outputText, cerr, outputStream, exitStatus, run, firstText>>

\* lines 123 - 124: applyCipher throws; the exception is stored in the future
ThreadThrow(i) ==
    /\ Running
    /\ i \in 1 .. Len(futures)
    /\ futures[i].state = "started"
    /\ cout' = Append(cout, ThreadWaitMsg)
    /\ coutWriters' = coutWriters \cup {i}
    /\ futures' = [futures EXCEPT ![i].state = "ready", ![i].exception = TRUE]
    /\ UNCHANGED <<pc, settings, inputText, cipher, substrLen, iThr, wait, fIdx,
                   outputText, cerr, outputStream, exitStatus, run, firstText>>

(***************************************************************************)
(* main(), lines 133 - 145: the polling loop.                              *)
(***************************************************************************)
\* f.wait_for(...) == std::future_status::ready
futureReady(f) == f.state = "ready"

\* line 134: the test of while (wait)
WhileTest ==
    /\ pc = "while"
    /\ fIdx' = 1
    /\ pc' = IF wait THEN "for" ELSE "get"
    /\ UNCHANGED <<settings, inputText, cipher, substrLen, iThr, futures, wait,
                   outputText, cout, cerr, outputStream, exitStatus, run,
                   firstText, coutWriters>>

\* a ready future that leaves wait as it is
ForReadyKeepsWaiting ==
    /\ pc = "for"
    /\ futureReady(futures[fIdx])
    /\ fIdx' = fIdx + 1
    /\ pc' = IF fIdx' > Len(futures) THEN "while" ELSE "for"
    /\ UNCHANGED <<settings, inputText, cipher, substrLen, iThr, futures, wait,
                   outputText, cout, cerr, outputStream, exitStatus, run,
                   firstText, coutWriters>>

\* lines 138, 140 - 143: future fIdx is ready, wait is set to false
ForReady ==
    /\ pc = "for"
    /\ futureReady(futures[fIdx])
    /\ wait' = FALSE
    /\ fIdx' = fIdx + 1
    /\ pc' = IF fIdx' > Len(futures) THEN "while" ELSE "for"
    /\ UNCHANGED <<settings, inputText, cipher, substrLen, iThr, futures,
                   outputText, cout, cerr, outputStream, exitStatus, run,
                   firstText, coutWriters>>

\* lines 138 - 139: wait_for times out on future fIdx, the for loop is left
ForTimeout ==
    /\ pc = "for"
    /\ ~futureReady(futures[fIdx])
    /\ pc' = "while"
    /\ UNCHANGED <<settings, inputText, cipher, substrLen, iThr, futures, wait,
                   fIdx, outputText, cout, cerr, outputStream, exitStatus, run,
                   firstText, coutWriters>>

(***************************************************************************)
(* main(), lines 146 - 149: f.get() blocks until future fIdx is ready,     *)
(* then returns its value or rethrows its exception; nothing in main()     *)
(* catches it, so std::terminate ends the program.                         *)
(***************************************************************************)
\* a get that does not wait for the thread
getNoWait(f) == TRUE

\* f.get() returns or throws only once the future is ready
getReturns(f) == futureReady(f)

\* a get that drops the thread's exception
getNeverThrows(f) == FALSE

\* f.get() rethrows the exception the thread ended with
getThrows(f) == f.exception

\* the futures taken last to first
getIndexReversed(k) == j + 1 - k

\* the last future left out, the one before it taken twice
getIndexStuck(k) == IF k < j THEN k ELSE j - 1

\* the index of the future whose result is appended next: the range-based
\* for of line 147 takes the futures in the order they were pushed
getIndex(k) == k

Get ==
    /\ pc = "get"
    /\ getReturns(futures[getIndex(fIdx)])
    /\ futures' = [futures EXCEPT ![getIndex(fIdx)].gets = @ + 1]
    /\ IF getThrows(futures[getIndex(fIdx)])
       THEN /\ exitStatus' = "terminate"
            /\ pc' = "done"
            /\ UNCHANGED <<outputText, fIdx>>
       ELSE /\ outputText' = outputText \o futures[getIndex(fIdx)].value
            /\ fIdx' = fIdx + 1
            /\ pc' = IF fIdx' > Len(futures) THEN "write" ELSE "get"
            /\ UNCHANGED exitStatus
    /\ UNCHANGED <<settings, inputText, cipher, substrLen, iThr, wait,
                   cout, cerr, outputStream, run, firstText, coutWriters>>

(***************************************************************************)
(* main(), lines 153 - 173: the output.                                    *)
(***************************************************************************)
WriteFile ==
    /\ pc = "write"
    /\ settings.outputFile # ""
    /\ \E good \in BOOLEAN :
          IF good
          THEN /\ outputStream' = Append(outputStream, TextLine(outputText))
               /\ exitStatus' = "return 0"
               /\ UNCHANGED cerr
          ELSE /\ cerr' = Append(cerr, OstreamErrorMsg)
               /\ exitStatus' = "return 1"
               /\ UNCHANGED outputStream
    /\ pc' = "done"
    /\ UNCHANGED <<settings, inputText, cipher, substrLen, iThr, futures, wait,
                   fIdx, outputText, cout, run, firstText, coutWriters>>

WriteCout ==
    /\ pc = "write"
    /\ settings.outputFile = ""
    /\ cout' = Append(cout, TextLine(outputText))
    /\ exitStatus' = "return 0"
    /\ pc' = "done"
    /\ UNCHANGED <<settings, inputText, cipher, substrLen, iThr, futures, wait,
                   fIdx, outputText, cerr, outputStream, run, firstText,
                   coutWriters>>

(***************************************************************************)
(* A second run of the program, with --decrypt, the same cipher and key,   *)
(* on the file the first run wrote (lines 15 - 92: the settings are read   *)
(* and every character of the input file goes through transformChar).      *)
(***************************************************************************)
\* the characters of a file
RECURSIVE fileChars(_)
fileChars(lines) ==
    IF lines = <<>> THEN <<>>
    ELSE Head(lines).text \o <<EndLine>> \o fileChars(Tail(lines))

\* lines 82 - 84
RECURSIVE readInput(_)
readInput(chars) ==
    IF chars = <<>> THEN <<>>
    ELSE transformChar(Head(chars)) \o readInput(Tail(chars))

Rerun ==
    /\ pc = "done"
    /\ run = 1
    /\ exitStatus = "return 0"
    /\ settings.cipherMode = "Encrypt"
    /\ settings.outputFile # ""
    /\ run' = 2
    /\ settings' = [settings EXCEPT !.cipherMode = "Decrypt"]
    /\ inputText' = readInput(fileChars(outputStream))
    /\ pc' = "cipherFactory"
    /\ cipher' = NoCipher
    /\ substrLen' = 0
    /\ iThr' = 0
    /\ futures' = <<>>
    /\ wait' = TRUE
    /\ fIdx' = 1
    /\ outputText' = <<>>
    /\ cout' = <<>>
    /\ cerr' = <<>>
    /\ outputStream' = <<>>
    /\ exitStatus' = "running"
    /\ coutWriters' = {}
    /\ UNCHANGED firstText

Next ==
    \/ ConstructCipher
    \/ Dispatch
    \/ \E i \in 1 .. j : ThreadApply(i)
    \/ WhileTest
    \/ ForReady
    \/ ForTimeout
    \/ Get
    \/ WriteFile
    \/ WriteCout
    \/ Rerun

\* the program with applyCipher total, as spec.md 4.3 describes it
Spec == Init /\ [][Next]_vars

\* the program with an applyCipher that may throw
InitThrow == Init /\ inputText \in ThrowTexts

NextThrow == Next \/ \E i \in 1 .. j : ThreadThrow(i)

SpecThrow == InitThrow /\ [][NextThrow]_vars

\* one run of the program with an applyCipher that may throw, the main thread
\* and every started thread scheduled again and again: a thread that can take
\* a step eventually takes one
InitLive == InitThrow

MainStep ==
    \/ ConstructCipher
    \/ Dispatch
    \/ WhileTest
    \/ ForReady
    \/ ForTimeout
    \/ Get
    \/ WriteFile
    \/ WriteCout

ThreadStep(i) == ThreadThrow(i) \/ ThreadApply(i)

NextLive == MainStep \/ \E i \in 1 .. j : ThreadStep(i)

SpecLive ==
    /\ InitLive
    /\ [][NextLive]_vars
    /\ WF_vars(MainStep)
    /\ \A i \in 1 .. j : WF_vars(ThreadStep(i))


(***************************************************************************)
(* Properties.                                                             *)
(***************************************************************************)
\* the output text is complete: the loop of lines 147 - 149 has ended
Assembled == pc = "write" \/ (pc = "done" /\ exitStatus = "return 0")

\* one applyCipher call on the whole input text
sequentialApply == applyCipher(cipher, inputText, settings.cipherMode)

\* the results of the first n futures, in index order
RECURSIVE concatValues(_, _)
concatValues(fs, n) ==
    IF n = 0 THEN <<>> ELSE concatValues(fs, n - 1) \o fs[n].value

\* the chunks of the first n futures, in index order
RECURSIVE concatChunks(_, _)
concatChunks(fs, n) ==
    IF n = 0 THEN <<>> ELSE concatChunks(fs, n - 1) \o fs[n].chunk

\* the cipher applied to slice 0, slice 1, ... slice n - 1 of the input text
RECURSIVE slicesApplied(_)
slicesApplied(n) ==
    IF n = 0 THEN <<>>
    ELSE slicesApplied(n - 1)
         \o applyCipher(cipher, inTextChunk(inputText, n - 1), settings.cipherMode)

\* an output text has been written to the file or to std::cout
TextWritten ==
    \/ outputStream # <<>>
    \/ \E k \in 1 .. Len(cout) : cout[k].tag = "text"

AllReady == Len(futures) = j /\ \A i \in 1 .. j : futureReady(futures[i])

\* C1: with the Vigenere cipher the assembled output of the four threads is
\* the output of one applyCipher call on the whole input text.
C1_VigenereChunkedEqualsSequential ==
    (Assembled /\ cipher.type = "Vigenere") => outputText = sequentialApply

\* C2: with the Playfair cipher the text is paired and padded as a whole
\* before it is cut, every chunk holds whole digraphs, and the assembled
\* output is the output of one applyCipher call on the whole input text.
C2_PlayfairChunkedEqualsSequential ==
    (Assembled /\ cipher.type = "Playfair") =>
        /\ concatChunks(futures, j) = PlayfairPad(inputText)
        /\ \A i \in 1 .. j : Len(SelectSeq(futures[i].chunk, IsAlpha)) % 2 = 0
        /\ outputText = sequentialApply

\* C3: with the Caesar cipher, in either mode and for every length of the
\* input text, the assembled output of the four threads is the output of one
\* applyCipher call on the whole input text, however the threads ran.
C3_CaesarChunkedEqualsSequential ==
    (Assembled /\ cipher.type = "Caesar") => outputText = sequentialApply

\* a decrypted text of a length that 4 does not divide, a letter wrapped round
C3_Witness ==
    /\ pc = "done" /\ exitStatus = "return 0"
    /\ cipher.type = "Caesar"
    /\ settings.cipherMode = "Decrypt"
    /\ Len(inputText) > j /\ Len(inputText) % j # 0
    /\ \E k \in 1 .. Len(inputText) : outputText[k] > inputText[k]

\* C4: while the results are collected the output text is the results of the
\* futures taken so far in index order, and the assembled output is the
\* cipher applied to slice 0, 1, 2, 3 in that order: a function of the input
\* alone, whatever the order in which the threads completed.
C4_OutputInSliceOrder ==
    /\ pc = "get" => outputText = concatValues(futures, fIdx - 1)
    /\ Assembled => /\ outputText = concatValues(futures, j)
                    /\ outputText = slicesApplied(j)

\* slice 0 is collected and slice 3 completed before slice 1 did
C4_Witness ==
    /\ pc = "get" /\ fIdx = 2
    /\ futureReady(futures[j]) /\ ~futureReady(futures[2])
    /\ futures[1].value # <<>> /\ futures[j].value # futures[1].value

\* C5: chunk i of an input text of length L is the L div 4 characters from
\* offset i * (L div 4) on, the last chunk also takes the L mod 4 characters
\* that remain, and the four chunks in index order make up the input text.
C5_ChunksPartitionText ==
    LET q == Len(inputText) \div j
        r == Len(inputText) % j
    IN  /\ \A i \in 1 .. Len(futures) :
              futures[i].chunk =
                  SubSeq(inputText, (i - 1) * q + 1,
                         IF i < j THEN i * q ELSE i * q + r)
        /\ pc \in {"while", "for", "get", "write"} =>
              /\ Len(futures) = j
              /\ concatChunks(futures, j) = inputText

\* all four chunks are cut from a text of a length that 4 does not divide
C5_Witness ==
    /\ pc = "while"
    /\ Len(inputText) > j /\ Len(inputText) % j # 0
    /\ \E k \in 2 .. Len(inputText) : inputText[k] # inputText[1]

\* C6: a run in Encrypt mode followed by a run in Decrypt mode on its output,
\* with the same cipher and key, gives back the first input text (for
\* Playfair: when the text has no J and pairs up without padding).
C6_RoundTrip ==
    (/\ run = 2
     /\ Assembled
     /\ cipher.type = "Playfair" =>
            /\ \A k \in 1 .. Len(firstText) : firstText[k] # LetterJ
            /\ PlayfairPad(firstText) = firstText)
    => outputText = firstText

\* C7: once a thread has ended with an exception no output text is ever
\* written, to the file or to std::cout, and the run ends abnormally, in a
\* way that is neither the success nor the construction-error exit.
C7_FailureGivesNoOutput ==
    (\E i \in 1 .. Len(futures) : futures[i].exception) =>
        /\ ~TextWritten
        /\ exitStatus \in {"running", "terminate"}
        /\ pc = "done" => exitStatus = "terminate"

\* one thread failed, another succeeded, and the run has ended
C7_Witness ==
    /\ pc = "done" /\ exitStatus = "terminate"
    /\ \E i \in 1 .. Len(futures) : futures[i].exception
    /\ \E i \in 1 .. Len(futures) : futures[i].value # <<>>

\* C8: when cipherFactory returns no cipher the run ends with the error
\* message and exit status 1; no thread is started and nothing is written to
\* the output file or to std::cout.
C8_NoCipherNoProcessing ==
    (pc # "cipherFactory" /\ cipher = NoCipher) =>
        /\ pc = "done" /\ exitStatus = "return 1"
        /\ cerr = <<CipherErrorMsg>>
        /\ futures = <<>>
        /\ cout = <<>> /\ outputStream = <<>>

\* Playfair without a key, on a text that is not empty
C8_Witness ==
    /\ pc = "done" /\ cipher = NoCipher
    /\ settings.cipherType = "Playfair" /\ settings.cipherKey = <<>>
    /\ inputText # <<>>

\* C9: the output text is written only when all four threads have completed.
C9_WriteAfterAllThreads == (pc = "write" \/ TextWritten) => AllReady

\* the run has ended and its output text is written
C9_Witness == TextWritten /\ AllReady /\ pc = "done"

\* C10: no two threads write to the same stream.
C10_NoSharedStream == Cardinality(coutWriters) <= 1

\* C11: four threads are started for a text of four characters or more, and
\* exactly one for a text of 0, 1, 2 or 3 characters.
C11_OneWorkerForShortText ==
    pc \in {"while", "for", "get", "write"} =>
        Len(futures) = IF Len(inputText) < j THEN 1 ELSE j

\* C13: when the polling loop has been left every future is ready.
C13_LoopExitsWhenAllReady == pc = "get" => AllReady

\* C14: with no output file, what a successful run has written to std::cout
\* is the output text and its line terminator, and nothing else.
C14_CoutIsOutputText ==
    (pc = "done" /\ exitStatus = "return 0" /\ settings.outputFile = "") =>
        cout = <<TextLine(outputText)>>

\* C15: no chunk is cut from beyond the end of the text, so substr never
\* throws; a text shorter than 4 gives three empty chunks and the whole text
\* as the last chunk (four empty chunks when the text is empty).
C15_ChunkOffsetsInRange ==
    /\ exitStatus # "terminate"
    /\ pc = "dispatch" => iThr * substrLen <= Len(inputText)
    /\ Len(inputText) < j =>
          \A i \in 1 .. Len(futures) :
              futures[i].chunk = IF i = j THEN inputText ELSE <<>>

\* the four chunks of a text of 1, 2 or 3 characters are cut
C15_Witness ==
    /\ pc = "while"
    /\ inputText # <<>> /\ Len(inputText) < j
    /\ futures[j].chunk = inputText

\* C16: after the dispatch loop there are exactly four futures; future i was
\* started on chunk i and, once ready, holds the cipher applied to chunk i;
\* get() is called on future 1, 2, 3, 4 in turn, once each, so that every
\* result is in the assembled output once.
C16_OneWorkerPerChunkOneGetPerFuture ==
    /\ pc \in {"while", "for", "get", "write"} => Len(futures) = j
    /\ \A i \in 1 .. Len(futures) :
          /\ futures[i].chunk = inTextChunk(inputText, i - 1)
          /\ futureReady(futures[i]) =>
                futures[i].value =
                    applyCipher(cipher, futures[i].chunk, settings.cipherMode)
          /\ futures[i].gets <= 1
          /\ pc = "get" => futures[i].gets = IF i < fIdx THEN 1 ELSE 0
    /\ Assembled => \A i \in 1 .. j : futures[i].gets = 1

\* the four results, not all alike, have been collected
C16_Witness ==
    /\ pc = "write"
    /\ \A i \in 1 .. j : futures[i].gets = 1
    /\ futures[j].value # futures[j - 1].value
    /\ futures[1].value # <<>>

Polling == pc \in {"while", "for"}

\* the run has ended with every result collected, or in std::terminate at the
\* first future, in index order, that holds an exception
EndedCollectedOrRethrown ==
    /\ pc = "done"
    /\ Len(futures) = j
    /\ \/ \A i \in 1 .. j : futures[i].gets = 1
       \/ /\ exitStatus = "terminate"
          /\ futures[fIdx].exception
          /\ \A i \in 1 .. j : futures[i].gets = (IF i <= fIdx THEN 1 ELSE 0)
          /\ \A i \in 1 .. (fIdx - 1) : ~futures[i].exception

====
